---- MODULE Spec2Model ----
(***************************************************************************)
(* Model of the CKB light client monitor (src/src/main.rs): a fleet of     *)
(* Client records polled in an endless loop.  Each sweep runs check_rpc,   *)
(* check_peers and check_block_number on every client in index order,      *)
(* then prints lag warnings and the peer / offline summaries, then sleeps. *)
(*                                                                         *)
(* u64 values are kept at their full width as four 16-bit limbs, most      *)
(* significant first, so that the arithmetic of the lag test wraps or      *)
(* panics exactly where the program's does.  Text is a sequence of         *)
(* one-character strings.  An Option is a sequence of length 0 or 1.       *)
(***************************************************************************)
EXTENDS Integers, Sequences, FiniteSets, TLC

\* ------------------------------------------------------------------ bounds
\* Number of clients in the fleet (TOTAL_CLIENTS is 100 in the program).
NumClients == 2
\* The clock runs from 0 to MaxTime seconds.
MaxTime == 1
\* get_peers answers with a list of 0..MaxPeers entries.
MaxPeers == 2
\* Longest result.number text tried on the parser.
MaxTextLen == 5

\* --------------------------------------------------------------- constants
STARTING_PORT == 19000
MAX_BLOCK_DIFF == 30
\* One limb of a u64 holds 16 bits; a u16 holds one limb.
LimbBase == 65536
\* Radix of u64::from_str_radix(.., 16); shifting by one digit moves 4 bits.
Radix == 16
LimbTop == 4096

Clients == 0 .. (NumClients - 1)

VARIABLES
    clients,               \* Vec<Client> of main, indexed 0 .. NumClients - 1
    highest_block_number,  \* the local of main, declared before the loop
    pc,                    \* where main is: the next thing it does
    idx,                   \* position of the first pass's iterator
    now,                   \* what Local::now() returns, in seconds
    log,                   \* the log macro invocations of the latest step
    last_read              \* history: the peer count each client last reported

vars == <<clients, highest_block_number, pc, idx, now, log, last_read>>

\* -------------------------------------------------------------- u64 values
U64Zero == <<0, 0, 0, 0>>

\* A small number as a u64.
U64Of(n) == <<0, 0, 0, n>>

\* a < b, on u64 values.
U64Less(a, b) ==
    \/ a[1] < b[1]
    \/ a[1] = b[1] /\ a[2] < b[2]
    \/ a[1] = b[1] /\ a[2] = b[2] /\ a[3] < b[3]
    \/ a[1] = b[1] /\ a[2] = b[2] /\ a[3] = b[3] /\ a[4] < b[4]

\* a + b on 64 bits: the wrapped sum and whether the true sum left 64 bits.
U64Add(a, b) ==
    LET s4 == a[4] + b[4]
        s3 == a[3] + b[3] + (s4 \div LimbBase)
        s2 == a[2] + b[2] + (s3 \div LimbBase)
        s1 == a[1] + b[1] + (s2 \div LimbBase)
    IN  [val |-> <<s1 % LimbBase, s2 % LimbBase, s3 % LimbBase, s4 % LimbBase>>,
         overflow |-> (s1 \div LimbBase) > 0]

\* a - b on 64 bits: the wrapped difference and whether the true one is negative.
U64Sub(a, b) ==
    LET d4 == a[4] - b[4]
        w4 == IF d4 < 0 THEN 1 ELSE 0
        d3 == a[3] - b[3] - w4
        w3 == IF d3 < 0 THEN 1 ELSE 0
        d2 == a[2] - b[2] - w3
        w2 == IF d2 < 0 THEN 1 ELSE 0
        d1 == a[1] - b[1] - w2
    IN  [val |-> <<d1 % LimbBase, d2 % LimbBase, d3 % LimbBase, d4 % LimbBase>>,
         overflow |-> d1 < 0]

\* ------------------------------------------------------------ hex parsing
HexLower == <<"0", "1", "2", "3", "4", "5", "6", "7", "8", "9",
              "a", "b", "c", "d", "e", "f">>
HexUpper == <<"0", "1", "2", "3", "4", "5", "6", "7", "8", "9",
              "A", "B", "C", "D", "E", "F">>

\* char::to_digit(16): the digit's value in a one-element sequence, or <<>>.
ToDigit(ch) ==
    IF \E k \in DOMAIN HexLower : HexLower[k] = ch
    THEN <<(CHOOSE k \in DOMAIN HexLower : HexLower[k] = ch) - 1>>
    ELSE IF \E k \in DOMAIN HexUpper : HexUpper[k] = ch
         THEN <<(CHOOSE k \in DOMAIN HexUpper : HexUpper[k] = ch) - 1>>
         ELSE <<>>

\* str::trim_start_matches("0x"): removes the prefix as often as it repeats.
RECURSIVE TrimStart0x(_)
TrimStart0x(s) ==
    IF Len(s) >= 2 /\ s[1] = "0" /\ s[2] = "x"
    THEN TrimStart0x(SubSeq(s, 3, Len(s)))
    ELSE s

\* v * 16 + d on 64 bits, as the checked multiply and add of from_str_radix.
U64PushDigit(v, d) ==
    [val |-> << (v[1] % LimbTop) * Radix + (v[2] \div LimbTop),
                (v[2] % LimbTop) * Radix + (v[3] \div LimbTop),
                (v[3] % LimbTop) * Radix + (v[4] \div LimbTop),
                (v[4] % LimbTop) * Radix + d >>,
     overflow |-> (v[1] \div LimbTop) > 0]

\* The digit loop of from_str_radix: [ok, val], left to right from acc.
RECURSIVE ParseDigits(_, _)
ParseDigits(digits, acc) ==
    IF digits = <<>> THEN [ok |-> TRUE, val |-> acc]
    ELSE LET d == ToDigit(Head(digits))
         IN  IF d = <<>> THEN [ok |-> FALSE, val |-> U64Zero]
             ELSE LET nxt == U64PushDigit(acc, d[1])
                  IN  IF nxt.overflow THEN [ok |-> FALSE, val |-> U64Zero]
                      ELSE ParseDigits(Tail(digits), nxt.val)

\* u64::from_str_radix(src, 16): empty input, a lone sign, a character that is
\* no hex digit and a value beyond 64 bits are errors; one leading "+" is
\* accepted.
FromStrRadix16(src) ==
    IF src = <<>> THEN [ok |-> FALSE, val |-> U64Zero]
    ELSE IF Len(src) = 1 /\ (src[1] = "+" \/ src[1] = "-")
         THEN [ok |-> FALSE, val |-> U64Zero]
         ELSE IF src[1] = "+" THEN ParseDigits(Tail(src), U64Zero)
              ELSE ParseDigits(src, U64Zero)

\* The parse of line 212.
ParseBlockNumber(block_num_str) == FromStrRadix16(TrimStart0x(block_num_str))

\* ----------------------------------------------------------------- Client
None == <<>>
Some(v) == <<v>>

\* Client::new
ClientNew(number) ==
    [number |-> number,
     port |-> (STARTING_PORT + number) % LimbBase,
     is_online |-> TRUE,
     block_number |-> U64Zero,
     peers |-> 0,
     time_offline |-> None]

\* One invocation of a log macro.  who is <<client number>>, or <<>> for a
\* line about the fleet.  The level filter of the logger is not modelled:
\* log holds every invocation, debug lines included.
Line(level, msg, who, args) ==
    [level |-> level, msg |-> msg, who |-> who, args |-> args]

\* What the remote end can do on each call.
RpcOutcomes == {"transport_error", "error_status", "success"}

PeersOutcomes ==
    {[kind |-> k, len |-> 0] : k \in {"transport_error", "json_error", "no_array"}}
    \cup {[kind |-> "array", len |-> n] : n \in 0 .. MaxPeers}

\* result.number strings a tip header can carry: 30, 31, the largest u64,
\* and text that is no number.
TipStrings ==
    { <<"0", "x", "1", "e">>,
      <<"0", "x", "1", "f">>,
      <<"0", "x", "f", "f", "f", "f", "f", "f", "f", "f",
        "f", "f", "f", "f", "f", "f", "f", "f">>,
      <<"0", "x", "Z", "Z">> }

\* Every text of up to MaxTextLen characters over a digit, the letters of
\* the prefix, two hex digits, a letter that is no hex digit, and a sign.
TextAlphabet == {"0", "x", "2", "a", "Z", "+"}
WideStrings == UNION {[1 .. n -> TextAlphabet] : n \in 0 .. MaxTextLen}

TipOutcomes ==
    {[kind |-> k, text |-> <<>>] :
        k \in {"transport_error", "json_error", "no_number", "not_string"}}
    \cup {[kind |-> "string", text |-> t] : t \in TipStrings}

\* check_rpc with the stamp left in place on recovery.
check_rpc_keeps_stamp(self, outcome, t_now) ==
    IF outcome = "success"
    THEN IF ~self.is_online
         THEN IF self.time_offline = None
              THEN [client |-> self, log |-> <<>>, panic |-> TRUE]
              ELSE [client |-> [self EXCEPT !.is_online = TRUE],
                    log |-> <<Line("info", "is now online", <<self.number>>,
                                   <<t_now - self.time_offline[1]>>)>>,
                    panic |-> FALSE]
         ELSE [client |-> self, log |-> <<>>, panic |-> FALSE]
    ELSE IF outcome = "error_status"
    THEN IF self.is_online
         THEN [client |-> [self EXCEPT !.is_online = FALSE,
                                       !.time_offline = Some(t_now),
                                       !.peers = 0,
                                       !.block_number = U64Zero],
               log |-> <<Line("error", "gave an error response",
                              <<self.number>>, <<>>)>>,
               panic |-> FALSE]
         ELSE [client |-> self, log |-> <<>>, panic |-> FALSE]
    ELSE IF self.is_online
         THEN [client |-> [self EXCEPT !.is_online = FALSE,
                                       !.time_offline = Some(t_now),
                                       !.peers = 0,
                                       !.block_number = U64Zero],
               log |-> <<Line("error", "did not respond",
                              <<self.number>>, <<>>)>>,
               panic |-> FALSE]
         ELSE [client |-> self, log |-> <<>>, panic |-> FALSE]

\* check_rpc with block_number kept when the status is not a success.
check_rpc_stale_height(self, outcome, t_now) ==
    IF outcome = "success"
    THEN IF ~self.is_online
         THEN IF self.time_offline = None
              THEN [client |-> self, log |-> <<>>, panic |-> TRUE]
              ELSE [client |-> [self EXCEPT !.is_online = TRUE,
                                            !.time_offline = None],
                    log |-> <<Line("info", "is now online", <<self.number>>,
                                   <<t_now - self.time_offline[1]>>)>>,
                    panic |-> FALSE]
         ELSE [client |-> self, log |-> <<>>, panic |-> FALSE]
    ELSE IF outcome = "error_status"
    THEN IF self.is_online
         THEN [client |-> [self EXCEPT !.is_online = FALSE,
                                       !.time_offline = Some(t_now),
                                       !.peers = 0],
               log |-> <<Line("error", "gave an error response",
                              <<self.number>>, <<>>)>>,
               panic |-> FALSE]
         ELSE [client |-> self, log |-> <<>>, panic |-> FALSE]
    ELSE IF self.is_online
         THEN [client |-> [self EXCEPT !.is_online = FALSE,
                                       !.time_offline = Some(t_now),
                                       !.peers = 0,
                                       !.block_number = U64Zero],
               log |-> <<Line("error", "did not respond",
                              <<self.number>>, <<>>)>>,
               panic |-> FALSE]
         ELSE [client |-> self, log |-> <<>>, panic |-> FALSE]

\* check_rpc with the operands of the duration swapped.
check_rpc_reversed(self, outcome, t_now) ==
    IF outcome = "success"
    THEN IF ~self.is_online
         THEN IF self.time_offline = None
              THEN [client |-> self, log |-> <<>>, panic |-> TRUE]
              ELSE [client |-> [self EXCEPT !.is_online = TRUE,
                                            !.time_offline = None],
                    log |-> <<Line("info", "is now online", <<self.number>>,
                                   <<self.time_offline[1] - t_now>>)>>,
                    panic |-> FALSE]
         ELSE [client |-> self, log |-> <<>>, panic |-> FALSE]
    ELSE IF outcome = "error_status"
    THEN IF self.is_online
         THEN [client |-> [self EXCEPT !.is_online = FALSE,
                                       !.time_offline = Some(t_now),
                                       !.peers = 0,
                                       !.block_number = U64Zero],
               log |-> <<Line("error", "gave an error response",
                              <<self.number>>, <<>>)>>,
               panic |-> FALSE]
         ELSE [client |-> self, log |-> <<>>, panic |-> FALSE]
    ELSE IF self.is_online
         THEN [client |-> [self EXCEPT !.is_online = FALSE,
                                       !.time_offline = Some(t_now),
                                       !.peers = 0,
                                       !.block_number = U64Zero],
               log |-> <<Line("error", "did not respond",
                              <<self.number>>, <<>>)>>,
               panic |-> FALSE]
         ELSE [client |-> self, log |-> <<>>, panic |-> FALSE]

\* check_rpc without the is_online test on the transport-error branch.
check_rpc_unguarded(self, outcome, t_now) ==
    IF outcome = "success"
    THEN IF ~self.is_online
         THEN IF self.time_offline = None
              THEN [client |-> self, log |-> <<>>, panic |-> TRUE]
              ELSE [client |-> [self EXCEPT !.is_online = TRUE,
                                            !.time_offline = None],
                    log |-> <<Line("info", "is now online", <<self.number>>,
                                   <<t_now - self.time_offline[1]>>)>>,
                    panic |-> FALSE]
         ELSE [client |-> self, log |-> <<>>, panic |-> FALSE]
    ELSE IF outcome = "error_status"
    THEN IF self.is_online
         THEN [client |-> [self EXCEPT !.is_online = FALSE,
                                       !.time_offline = Some(t_now),
                                       !.peers = 0,
                                       !.block_number = U64Zero],
               log |-> <<Line("error", "gave an error response",
                              <<self.number>>, <<>>)>>,
               panic |-> FALSE]
         ELSE [client |-> self, log |-> <<>>, panic |-> FALSE]
    ELSE [client |-> [self EXCEPT !.is_online = FALSE,
                                  !.time_offline = Some(t_now),
                                  !.peers = 0,
                                  !.block_number = U64Zero],
          log |-> <<Line("error", "did not respond",
                         <<self.number>>, <<>>)>>,
          panic |-> FALSE]

\* Client::check_rpc.  panic is the unwrap of an empty time_offline.
check_rpc(self, outcome, t_now) ==
    IF outcome = "success"
    THEN IF ~self.is_online
         THEN IF self.time_offline = None
              THEN [client |-> self, log |-> <<>>, panic |-> TRUE]
              ELSE [client |-> [self EXCEPT !.is_online = TRUE,
                                            !.time_offline = None],
                    log |-> <<Line("info", "is now online", <<self.number>>,
                                   <<t_now - self.time_offline[1]>>)>>,
                    panic |-> FALSE]
         ELSE [client |-> self, log |-> <<>>, panic |-> FALSE]
    ELSE IF outcome = "error_status"
    THEN IF self.is_online
         THEN [client |-> [self EXCEPT !.is_online = FALSE,
                                       !.time_offline = Some(t_now),
                                       !.peers = 0,
                                       !.block_number = U64Zero],
               log |-> <<Line("error", "gave an error response",
                              <<self.number>>, <<>>)>>,
               panic |-> FALSE]
         ELSE [client |-> self, log |-> <<>>, panic |-> FALSE]
    ELSE IF self.is_online
         THEN [client |-> [self EXCEPT !.is_online = FALSE,
                                       !.time_offline = Some(t_now),
                                       !.peers = 0,
                                       !.block_number = U64Zero],
               log |-> <<Line("error", "did not respond",
                              <<self.number>>, <<>>)>>,
               panic |-> FALSE]
         ELSE [client |-> self, log |-> <<>>, panic |-> FALSE]

\* check_peers without the comparison to the stored count.
check_peers_always_logs(self, outcome) ==
    IF ~self.is_online
    THEN [client |-> self, log |-> <<>>, sent |-> FALSE]
    ELSE IF outcome.kind = "transport_error"
    THEN [client |-> self, sent |-> TRUE,
          log |-> <<Line("error", "did not respond to the peer request",
                         <<self.number>>, <<>>)>>]
    ELSE IF outcome.kind = "json_error"
    THEN [client |-> self, sent |-> TRUE,
          log |-> <<Line("error", "failed to parse JSON response",
                         <<self.number>>, <<>>)>>]
    ELSE IF outcome.kind = "no_array"
    THEN [client |-> self, sent |-> TRUE,
          log |-> <<Line("error", "result field is not an array or missing",
                         <<self.number>>, <<>>)>>]
    ELSE LET peers_count == outcome.len
         IN  [client |-> [self EXCEPT !.peers = peers_count % LimbBase],
              sent |-> TRUE,
              log |-> IF peers_count = 0 \/ peers_count = 1
                      THEN <<Line("debug", "has peers", <<self.number>>,
                                  <<peers_count>>)>>
                      ELSE <<>>]

\* check_peers taking the record offline when the peer request gets no answer.
check_peers_goes_offline(self, outcome) ==
    IF ~self.is_online
    THEN [client |-> self, log |-> <<>>, sent |-> FALSE]
    ELSE IF outcome.kind = "transport_error"
    THEN [client |-> [self EXCEPT !.is_online = FALSE], sent |-> TRUE,
          log |-> <<Line("error", "did not respond to the peer request",
                         <<self.number>>, <<>>)>>]
    ELSE IF outcome.kind = "json_error"
    THEN [client |-> self, sent |-> TRUE,
          log |-> <<Line("error", "failed to parse JSON response",
                         <<self.number>>, <<>>)>>]
    ELSE IF outcome.kind = "no_array"
    THEN [client |-> self, sent |-> TRUE,
          log |-> <<Line("error", "result field is not an array or missing",
                         <<self.number>>, <<>>)>>]
    ELSE LET peers_count == outcome.len
         IN  [client |-> [self EXCEPT !.peers = peers_count % LimbBase],
              sent |-> TRUE,
              log |-> IF self.peers # peers_count % LimbBase
                         /\ (peers_count = 0 \/ peers_count = 1)
                      THEN <<Line("debug", "has peers", <<self.number>>,
                                  <<peers_count>>)>>
                      ELSE <<>>]

\* check_peers without the early return for an offline record.
check_peers_no_guard(self, outcome) ==
    IF outcome.kind = "transport_error"
    THEN [client |-> self, sent |-> TRUE,
          log |-> <<Line("error", "did not respond to the peer request",
                         <<self.number>>, <<>>)>>]
    ELSE IF outcome.kind = "json_error"
    THEN [client |-> self, sent |-> TRUE,
          log |-> <<Line("error", "failed to parse JSON response",
                         <<self.number>>, <<>>)>>]
    ELSE IF outcome.kind = "no_array"
    THEN [client |-> self, sent |-> TRUE,
          log |-> <<Line("error", "result field is not an array or missing",
                         <<self.number>>, <<>>)>>]
    ELSE LET peers_count == outcome.len
         IN  [client |-> [self EXCEPT !.peers = peers_count % LimbBase],
              sent |-> TRUE,
              log |-> IF self.peers # peers_count % LimbBase
                         /\ (peers_count = 0 \/ peers_count = 1)
                      THEN <<Line("debug", "has peers", <<self.number>>,
                                  <<peers_count>>)>>
                      ELSE <<>>]

\* Client::check_peers.  sent tells whether the remote call was issued.
check_peers(self, outcome) ==
    IF ~self.is_online
    THEN [client |-> self, log |-> <<>>, sent |-> FALSE]
    ELSE IF outcome.kind = "transport_error"
    THEN [client |-> self, sent |-> TRUE,
          log |-> <<Line("error", "did not respond to the peer request",
                         <<self.number>>, <<>>)>>]
    ELSE IF outcome.kind = "json_error"
    THEN [client |-> self, sent |-> TRUE,
          log |-> <<Line("error", "failed to parse JSON response",
                         <<self.number>>, <<>>)>>]
    ELSE IF outcome.kind = "no_array"
    THEN [client |-> self, sent |-> TRUE,
          log |-> <<Line("error", "result field is not an array or missing",
                         <<self.number>>, <<>>)>>]
    ELSE LET peers_count == outcome.len
         IN  [client |-> [self EXCEPT !.peers = peers_count % LimbBase],
              sent |-> TRUE,
              log |-> IF self.peers # peers_count % LimbBase
                         /\ (peers_count = 0 \/ peers_count = 1)
                      THEN <<Line("debug", "has peers", <<self.number>>,
                                  <<peers_count>>)>>
                      ELSE <<>>]

\* ParseBlockNumber on the strings the remote end can send, computed once.
ParseTable == [t \in TipStrings |-> ParseBlockNumber(t)]

Parsed(text) ==
    IF text \in DOMAIN ParseTable THEN ParseTable[text] ELSE ParseBlockNumber(text)

\* check_block_number storing 0 when the number does not parse.
check_block_number_zeroes(self, outcome) ==
    IF ~self.is_online
    THEN [client |-> self, log |-> <<>>, sent |-> FALSE]
    ELSE IF outcome.kind = "transport_error"
    THEN [client |-> self, sent |-> TRUE,
          log |-> <<Line("error", "did not respond to the tip request",
                         <<self.number>>, <<>>)>>]
    ELSE IF outcome.kind = "json_error"
    THEN [client |-> self, sent |-> TRUE,
          log |-> <<Line("error", "failed to parse JSON response",
                         <<self.number>>, <<>>)>>]
    ELSE IF outcome.kind = "no_number"
    THEN [client |-> self, sent |-> TRUE,
          log |-> <<Line("error", "returned an unexpected JSON object",
                         <<self.number>>, <<>>)>>]
    ELSE IF outcome.kind = "not_string"
    THEN [client |-> self, sent |-> TRUE,
          log |-> <<Line("error", "returned a block number in an unexpected format",
                         <<self.number>>, <<>>)>>]
    ELSE LET block_num == Parsed(outcome.text)
         IN  IF block_num.ok
             THEN [client |-> [self EXCEPT !.block_number = block_num.val],
                   sent |-> TRUE, log |-> <<>>]
             ELSE [client |-> [self EXCEPT !.block_number = U64Zero], sent |-> TRUE,
                   log |-> <<Line("error", "failed to parse block number",
                                  <<self.number>>, <<>>)>>]

\* Client::check_block_number.
check_block_number(self, outcome) ==
    IF ~self.is_online
    THEN [client |-> self, log |-> <<>>, sent |-> FALSE]
    ELSE IF outcome.kind = "transport_error"
    THEN [client |-> self, sent |-> TRUE,
          log |-> <<Line("error", "did not respond to the tip request",
                         <<self.number>>, <<>>)>>]
    ELSE IF outcome.kind = "json_error"
    THEN [client |-> self, sent |-> TRUE,
          log |-> <<Line("error", "failed to parse JSON response",
                         <<self.number>>, <<>>)>>]
    ELSE IF outcome.kind = "no_number"
    THEN [client |-> self, sent |-> TRUE,
          log |-> <<Line("error", "returned an unexpected JSON object",
                         <<self.number>>, <<>>)>>]
    ELSE IF outcome.kind = "not_string"
    THEN [client |-> self, sent |-> TRUE,
          log |-> <<Line("error", "returned a block number in an unexpected format",
                         <<self.number>>, <<>>)>>]
    ELSE LET block_num == Parsed(outcome.text)
         IN  IF block_num.ok
             THEN [client |-> [self EXCEPT !.block_number = block_num.val],
                   sent |-> TRUE, log |-> <<>>]
             ELSE [client |-> self, sent |-> TRUE,
                   log |-> <<Line("error", "failed to parse block number",
                                  <<self.number>>, <<>>)>>]

\* ------------------------------------------------------------------- main
\* Second pass (lines 272-280): the warnings, in index order, up to the end
\* or to the first arithmetic overflow that the build traps.
RECURSIVE LagWarnings(_, _, _, _)
LagWarnings(cs, highest, i, checks) ==
    IF i >= NumClients THEN [log |-> <<>>, panic |-> FALSE]
    ELSE LET client == cs[i]
             sum == U64Add(client.block_number, U64Of(MAX_BLOCK_DIFF))
             diff == U64Sub(highest, client.block_number)
             rest == LagWarnings(cs, highest, i + 1, checks)
         IN  IF ~client.is_online THEN rest
             ELSE IF sum.overflow /\ checks THEN [log |-> <<>>, panic |-> TRUE]
             ELSE IF ~U64Less(sum.val, highest) THEN rest
             ELSE IF diff.overflow /\ checks THEN [log |-> <<>>, panic |-> TRUE]
             ELSE [log |-> <<Line("warn", "is lagging", <<client.number>>,
                                  <<diff.val, client.block_number>>)>> \o rest.log,
                   panic |-> rest.panic]

\* The 0-peer vector filled without the is_online test.
RECURSIVE Peer0Clients_all(_, _)
Peer0Clients_all(cs, i) ==
    IF i >= NumClients THEN <<>>
    ELSE (IF cs[i].peers = 0 THEN <<cs[i].number>> ELSE <<>>)
         \o Peer0Clients_all(cs, i + 1)

\* Third pass, the loop of lines 286-303: the three vectors.
RECURSIVE Peer0Clients(_, _)
Peer0Clients(cs, i) ==
    IF i >= NumClients THEN <<>>
    ELSE (IF cs[i].is_online /\ cs[i].peers = 0 THEN <<cs[i].number>> ELSE <<>>)
         \o Peer0Clients(cs, i + 1)

RECURSIVE Peer1Clients(_, _)
Peer1Clients(cs, i) ==
    IF i >= NumClients THEN <<>>
    ELSE (IF cs[i].is_online /\ cs[i].peers # 0 /\ cs[i].peers = 1
          THEN <<cs[i].number>> ELSE <<>>)
         \o Peer1Clients(cs, i + 1)

RECURSIVE OfflineClients(_, _)
OfflineClients(cs, i) ==
    IF i >= NumClients THEN <<>>
    ELSE (IF ~cs[i].is_online THEN <<cs[i].number>> ELSE <<>>)
         \o OfflineClients(cs, i + 1)

\* Third pass, lines 304-321: one line per non-empty vector.
Summary(msg, list) ==
    IF list # <<>> THEN <<Line("info", msg, <<>>, <<Len(list), list>>)>> ELSE <<>>

Init ==
    /\ clients = [i \in Clients |-> ClientNew(i)]
    /\ highest_block_number = U64Zero
    /\ pc = "check_rpc"
    /\ idx = 0
    /\ now = 0
    /\ log = <<>>
    /\ last_read = [i \in Clients |-> None]

\* An iterator that hands out the same client again.
NextClient_again ==
    IF idx + 1 < NumClients
    THEN pc' = "check_rpc" /\ idx' = idx
    ELSE pc' = "lag_pass" /\ idx' = 0

\* The iterator of the first pass moves to the next client, or the pass ends.
NextClient ==
    IF idx + 1 < NumClients
    THEN pc' = "check_rpc" /\ idx' = idx + 1
    ELSE pc' = "lag_pass" /\ idx' = 0

\* Lines 256-259: the debug line, check_rpc, and the test of is_online,
\* when the remote end answers the liveness call with outcome.
RpcStep(outcome) ==
    /\ pc = "check_rpc"
    /\ LET r == check_rpc(clients[idx], outcome, now)
       IN  /\ log' = <<Line("debug", "Checking client", <<idx>>, <<>>)>> \o r.log
           /\ IF r.panic
              THEN pc' = "panic_unwrap" /\ UNCHANGED <<clients, idx>>
              ELSE /\ clients' = [clients EXCEPT ![idx] = r.client]
                   /\ IF r.client.is_online
                      THEN pc' = "check_peers" /\ idx' = idx
                      ELSE NextClient
    /\ UNCHANGED <<highest_block_number, now>>

StepCheckRpc == \E outcome \in RpcOutcomes : RpcStep(outcome)

\* PeersStep writing the result to the first record instead of the current one.
PeersStep_first(outcome) ==
    /\ pc = "check_peers"
    /\ LET r == check_peers(clients[idx], outcome)
       IN  /\ clients' = [clients EXCEPT ![0] = r.client]
           /\ log' = r.log
    /\ pc' = "check_block_number"
    /\ UNCHANGED <<highest_block_number, idx, now>>

\* Line 261, when the remote end answers get_peers with outcome.
PeersStep(outcome) ==
    /\ pc = "check_peers"
    /\ LET r == check_peers(clients[idx], outcome)
       IN  /\ clients' = [clients EXCEPT ![idx] = r.client]
           /\ log' = r.log
    /\ pc' = "check_block_number"
    /\ UNCHANGED <<highest_block_number, idx, now>>

StepCheckPeers == \E outcome \in PeersOutcomes : PeersStep(outcome)

\* Lines 262-267: check_block_number, then the running maximum, when the
\* remote end answers get_tip_header with outcome.
TipStep(outcome) ==
    /\ pc = "check_block_number"
    /\ LET r == check_block_number(clients[idx], outcome)
       IN  /\ clients' = [clients EXCEPT ![idx] = r.client]
           /\ log' = r.log
           /\ highest_block_number' =
                  IF U64Less(highest_block_number, r.client.block_number)
                  THEN r.client.block_number
                  ELSE highest_block_number
    /\ NextClient
    /\ UNCHANGED now

StepCheckBlockNumber == \E outcome \in TipOutcomes : TipStep(outcome)

\* Lines 272-280.  Whether an overflow of the u64 arithmetic traps or wraps
\* is the build's choice (overflow-checks), open here at every pass.
LagPass ==
    /\ pc = "lag_pass"
    /\ \E overflow_checks \in BOOLEAN :
         LET r == LagWarnings(clients, highest_block_number, 0, overflow_checks)
         IN  /\ log' = r.log
             /\ pc' = IF r.panic THEN "panic_overflow" ELSE "group_pass"
    /\ UNCHANGED <<clients, highest_block_number, idx, now>>

\* Lines 283-321.
GroupPass ==
    /\ pc = "group_pass"
    /\ log' = Summary("clients with 0 peers", Peer0Clients(clients, 0))
              \o Summary("clients with 1 peer", Peer1Clients(clients, 0))
              \o Summary("clients that are offline", OfflineClients(clients, 0))
    /\ pc' = "sleep"
    /\ UNCHANGED <<clients, highest_block_number, idx, now>>

\* Line 323, and back to the top of the loop.  The time the sleep and the
\* remote calls take is Tick's.
Sleep ==
    /\ pc = "sleep"
    /\ pc' = "check_rpc"
    /\ idx' = 0
    /\ log' = <<>>
    /\ UNCHANGED <<clients, highest_block_number, now>>

\* A second passes on the clock that Local::now() reads.
Tick ==
    /\ now < MaxTime
    /\ now' = now + 1
    /\ UNCHANGED <<clients, highest_block_number, pc, idx, log>>

\* The steps of main, one after the other.
Program ==
    \/ StepCheckRpc
    \/ StepCheckPeers
    \/ StepCheckBlockNumber
    \/ LagPass
    \/ GroupPass
    \/ Sleep

Next ==
    \/ StepCheckRpc /\ UNCHANGED last_read
    \/ StepCheckPeers /\ UNCHANGED last_read
    \/ StepCheckBlockNumber /\ UNCHANGED last_read
    \/ LagPass /\ UNCHANGED last_read
    \/ GroupPass /\ UNCHANGED last_read
    \/ Sleep /\ UNCHANGED last_read
    \/ Tick /\ UNCHANGED last_read

Spec == Init /\ [][Next]_vars

\* main never yields except inside a remote call, and every remote call
\* returns: the step main is at is eventually taken.
FairSpec == Spec /\ WF_vars(Program /\ UNCHANGED last_read)

\* The same program with the history of peer counts kept: last_read[i] is
\* the length of the latest list client i sent in answer to get_peers.
HistPeersStep ==
    \E outcome \in PeersOutcomes :
        /\ PeersStep(outcome)
        /\ last_read' = IF outcome.kind = "array"
                        THEN [last_read EXCEPT ![idx] = Some(outcome.len)]
                        ELSE last_read

HistNext ==
    \/ HistPeersStep
    \/ StepCheckRpc /\ UNCHANGED last_read
    \/ StepCheckBlockNumber /\ UNCHANGED last_read
    \/ LagPass /\ UNCHANGED last_read
    \/ GroupPass /\ UNCHANGED last_read
    \/ Sleep /\ UNCHANGED last_read
    \/ Tick /\ UNCHANGED last_read

HistSpec == Init /\ [][HistNext]_vars

\* The parser on every text: the first record's first visit, with a live
\* client that answers get_tip_header with any text of WideStrings.
WideTipStep ==
    \E t \in WideStrings : TipStep([kind |-> "string", text |-> t])

ParseNext ==
    \/ idx = 0 /\ RpcStep("success") /\ UNCHANGED last_read
    \/ StepCheckPeers /\ UNCHANGED last_read
    \/ WideTipStep /\ UNCHANGED last_read

ParseSpec == Init /\ [][ParseNext]_vars

\* ================================================================== claims
\* Helpers of the claims below.

\* The lines of a log of the given message about client i.
LinesAbout(lg, msg, i) ==
    {k \in DOMAIN lg : lg[k].msg = msg /\ lg[k].who = <<i>>}

\* The error-level lines of a log about client i.
ErrorLines(lg, i) ==
    {k \in DOMAIN lg : lg[k].level = "error" /\ lg[k].who = <<i>>}

\* The block numbers of the records that are online.
OnlineNumbers == {clients[i].block_number : i \in {j \in Clients : clients[j].is_online}}

\* The largest of them, 0 when no record is online.
MaxOnline ==
    IF OnlineNumbers = {} THEN U64Zero
    ELSE CHOOSE m \in OnlineNumbers : \A n \in OnlineNumbers : ~U64Less(m, n)

\* highest - block_number > 30 over the integers: block_number + 30 < highest
\* with a sum that is not cut to 64 bits.
GapExceeds(highest, block_number) ==
    LET sum == U64Add(block_number, U64Of(MAX_BLOCK_DIFF))
    IN  ~sum.overflow /\ U64Less(sum.val, highest)

\* C1: at the end of the first pass of every sweep the fleet-wide highest
\* block height equals the maximum block_number over the online records (0
\* when none is online), with nothing carried over from an earlier sweep.
C1_HighestIsMaxOnline ==
    pc = "lag_pass" => highest_block_number = MaxOnline

\* C2: after the second pass of a sweep, a record has a lag warning if and
\* only if it is online and highest minus its block_number is more than 30.
C2_LagWarningIff ==
    pc = "group_pass" =>
        \A i \in Clients :
            (LinesAbout(log, "is lagging", i) # {})
            <=> (clients[i].is_online
                 /\ GapExceeds(highest_block_number, clients[i].block_number))

\* C3: in every state, for every record, time_offline is set if and only if
\* the record is offline, and the unwrap of time_offline in check_rpc has
\* never failed.
C3_TimeOfflineIffOffline ==
    /\ \A i \in Clients : (clients[i].time_offline # None) <=> ~clients[i].is_online
    /\ pc # "panic_unwrap"

\* A record has just come back online through the unwrap of line 66.
C3_Witness ==
    \E i \in Clients :
        /\ LinesAbout(log, "is now online", i) # {}
        /\ clients[i].is_online
        /\ clients[i].time_offline = None

\* C4: when check_rpc runs on an online record and the liveness call fails
\* at transport level or returns a non-success status, the record becomes
\* offline, exactly one error line is logged for it, time_offline is the
\* current time, and peers and block_number are 0, for both kinds alike.
C4_OfflineTransition ==
    [][\A o \in {"transport_error", "error_status"} :
          (RpcStep(o) /\ clients[idx].is_online) =>
              /\ ~clients'[idx].is_online
              /\ clients'[idx].time_offline = Some(now)
              /\ clients'[idx].peers = 0
              /\ clients'[idx].block_number = U64Zero
              /\ Cardinality(ErrorLines(log', idx)) = 1
              /\ clients'[idx] = check_rpc(clients[idx], "transport_error", now).client
              /\ clients'[idx] = check_rpc(clients[idx], "error_status", now).client
      ]_vars

\* A record has just gone offline on a non-success status.
C4_Witness ==
    \E i \in Clients :
        /\ LinesAbout(log, "gave an error response", i) # {}
        /\ ~clients[i].is_online
        /\ clients[i].time_offline = Some(now)
        /\ now > 0

\* C5: when check_rpc runs on an offline record and the liveness call returns
\* a success status, the record becomes online, time_offline is cleared, and
\* exactly one recovery line is logged, whose duration is the current time
\* minus the stored time_offline and is not negative.
C5_OnlineTransition ==
    [][(RpcStep("success") /\ ~clients[idx].is_online) =>
          /\ clients[idx].time_offline # None
          /\ clients'[idx].is_online
          /\ clients'[idx].time_offline = None
          /\ Cardinality(LinesAbout(log', "is now online", idx)) = 1
          /\ Len(log') = 2
          /\ \A k \in LinesAbout(log', "is now online", idx) :
                /\ log'[k].args = <<now - clients[idx].time_offline[1]>>
                /\ log'[k].args[1] >= 0
      ]_vars

\* A record has just come back online after an outage of more than 0 seconds.
C5_Witness ==
    \E i \in Clients :
        /\ clients[i].is_online
        /\ \E k \in LinesAbout(log, "is now online", i) : log[k].args[1] > 0

\* C6: check_rpc changes no record and logs nothing when the outcome matches
\* the state: success for an online record, a transport failure or a
\* non-success status for an offline one.  (The one line of the step is
\* main's own "Checking client".)
C6_NoChangeNoLog ==
    [][\A o \in RpcOutcomes :
          (RpcStep(o) /\ (clients[idx].is_online <=> (o = "success"))) =>
              /\ clients' = clients
              /\ log' = <<Line("debug", "Checking client", <<idx>>, <<>>)>>
      ]_vars

\* A record that went offline earlier has just failed its liveness check again.
C6_Witness ==
    \E i \in Clients :
        /\ ~clients[i].is_online
        /\ clients[i].time_offline # None
        /\ clients[i].time_offline # Some(now)
        /\ log = <<Line("debug", "Checking client", <<i>>, <<>>)>>

\* C7: check_peers logs its peer-count line only when the count just read is
\* 0 or 1 and differs from the count stored in the record before the call.
C7_PeerLineOnlyIf ==
    [][\A o \in PeersOutcomes :
          (PeersStep(o) /\ LinesAbout(log', "has peers", idx) # {}) =>
              /\ o.kind = "array"
              /\ o.len \in {0, 1}
              /\ o.len # clients[idx].peers
      ]_vars

\* The peer-count line has just been logged for a record now holding 1 peer.
C7_Witness ==
    \E i \in Clients :
        /\ LinesAbout(log, "has peers", i) # {}
        /\ clients[i].peers = 1

\* C8: whenever a get_peers read returns a list of 0 or 1 entries and the
\* count the client reported at its previous read was another value, or
\* there was no previous read, the peer-count line is logged.
C8_EveryTransitionLogged ==
    [][\A o \in PeersOutcomes :
          (PeersStep(o) /\ o.kind = "array" /\ o.len \in {0, 1}
           /\ last_read[idx] # Some(o.len)) =>
              LinesAbout(log', "has peers", idx) # {}
      ]_vars

\* The text has a character that is neither a hex digit nor the x of a prefix.
HasNonHexChar(text) ==
    \E k \in DOMAIN text : ToDigit(text[k]) = <<>> /\ text[k] # "x"

\* The answers to get_peers that are failed reads.
FailedPeersOutcomes == {o \in PeersOutcomes : o.kind # "array"}

\* The answers to get_tip_header that are failed reads.
FailedTipOutcomes ==
    {o \in TipOutcomes : o.kind # "string" \/ HasNonHexChar(o.text)}

C10_CheckedInfinitelyOften ==
    \A i \in Clients :
        []<>(LinesAbout(log, "Checking client", i) # {})

\* C11: running check_rpc, check_peers or check_block_number on record idx,
\* whatever the remote outcome, leaves every field of every other record as
\* it was.
C11_OtherRecordsUntouched ==
    [][((\E o \in RpcOutcomes : RpcStep(o))
        \/ (\E o \in PeersOutcomes : PeersStep(o))
        \/ (\E o \in TipOutcomes : TipStep(o))) =>
           \A j \in Clients \ {idx} : clients'[j] = clients[j]
      ]_vars

\* A get_peers read of record i has just stored 1 peer while another record
\* is online holding 2 peers.
C11_Witness ==
    \E i \in Clients : \E j \in Clients \ {i} :
        /\ pc = "check_block_number" /\ idx = i
        /\ LinesAbout(log, "has peers", i) # {}
        /\ clients[i].peers = 1
        /\ clients[j].is_online /\ clients[j].peers = 2

\* A 0x-prefixed or bare hexadecimal number: an optional 0x, then one or
\* more hex digits.
IsHexNumber(text) ==
    LET body == IF Len(text) >= 2 /\ text[1] = "0" /\ text[2] = "x"
                THEN SubSeq(text, 3, Len(text))
                ELSE text
    IN  body # <<>> /\ \A k \in DOMAIN body : ToDigit(body[k]) # <<>>

\* C12: the number text of a tip header is parsed in base 16 after removing
\* the 0x prefix: "0x2a" and "2a" both store 42, and a text that is neither a
\* 0x-prefixed nor a bare hexadecimal number is a parse error which leaves
\* block_number as it was.
C12_HexParsing ==
    [][\A t \in WideStrings :
          TipStep([kind |-> "string", text |-> t]) =>
              /\ t = <<"0", "x", "2", "a">> =>
                    clients'[idx].block_number = U64Of(42)
              /\ t = <<"2", "a">> =>
                    clients'[idx].block_number = U64Of(42)
              /\ ~IsHexNumber(t) =>
                    /\ clients'[idx].block_number = clients[idx].block_number
                    /\ LinesAbout(log', "failed to parse block number", idx) # {}
      ]_vars

\* C13: every record starts online, and only check_rpc changes is_online or
\* time_offline: a step that is not a check_rpc call (check_peers,
\* check_block_number whatever their outcome, the reporting passes, the sleep)
\* leaves both fields of every record as they were.
C13_OnlineOnlyViaCheckRpc ==
    /\ \A i \in Clients : clients[i].is_online
    /\ [][~(\E o \in RpcOutcomes : RpcStep(o)) =>
              \A i \in Clients :
                  /\ clients'[i].is_online = clients[i].is_online
                  /\ clients'[i].time_offline = clients[i].time_offline
         ]_vars

\* The get_peers request of record i has just gone unanswered and the record
\* is still online.
C13_Witness ==
    \E i \in Clients :
        /\ pc = "check_block_number" /\ idx = i
        /\ LinesAbout(log, "did not respond to the peer request", i) # {}
        /\ clients[i].is_online
        /\ clients[i].time_offline = None

\* C14: for an offline record check_peers and check_block_number send
\* nothing and return the record unchanged, whatever the remote end would
\* have answered, and main calls neither of them for a record that is offline
\* after its check_rpc.
C14_OfflineRecordSkipped ==
    /\ \A i \in Clients :
          ~clients[i].is_online =>
              /\ \A o \in PeersOutcomes :
                    check_peers(clients[i], o) =
                        [client |-> clients[i], log |-> <<>>, sent |-> FALSE]
              /\ \A o \in TipOutcomes :
                    check_block_number(clients[i], o) =
                        [client |-> clients[i], log |-> <<>>, sent |-> FALSE]
    /\ pc \in {"check_peers", "check_block_number"} => clients[idx].is_online

\* The liveness call of record i has just failed and main has moved past the
\* record without calling check_peers or check_block_number.
C14_Witness ==
    \E i \in Clients :
        /\ ~clients[i].is_online
        /\ LinesAbout(log, "did not respond", i) # {}
        /\ \/ pc = "check_rpc" /\ idx = i + 1
           \/ pc = "lag_pass" /\ i = NumClients - 1

\* The place of the next remote call in the first pass: three calls per
\* record, records in index order.
CallPosition(p, i) ==
    3 * i + (CASE p = "check_rpc" -> 0
               [] p = "check_peers" -> 1
               [] p = "check_block_number" -> 2)

FirstPassPcs == {"check_rpc", "check_peers", "check_block_number"}

\* C15: in the first pass the calls come one after another in a fixed order.
\* After the liveness call of record idx comes its peers call if and only if
\* the record is online then, otherwise the next record's liveness call; after
\* the peers call comes the tip-header call of the same record; after that the
\* next record's liveness call, or the end of the pass after the last record.
\* The place of the call only moves forward within a pass, and a sweep starts
\* at record 0.
C15_CallsInOrder ==
    [][<<pc, idx>>' # <<pc, idx>> =>
          LET advanced ==
                  IF idx + 1 < NumClients
                  THEN pc' = "check_rpc" /\ idx' = idx + 1
                  ELSE pc' = "lag_pass"
          IN  /\ pc = "check_rpc" =>
                    IF clients'[idx].is_online
                    THEN pc' = "check_peers" /\ idx' = idx
                    ELSE advanced
              /\ pc = "check_peers" => pc' = "check_block_number" /\ idx' = idx
              /\ pc = "check_block_number" => advanced
              /\ pc \in FirstPassPcs /\ pc' \in FirstPassPcs =>
                    CallPosition(pc', idx') = CallPosition(pc, idx) + 1
                    \/ (pc = "check_rpc"
                        /\ CallPosition(pc', idx') = CallPosition(pc, idx) + 3)
              /\ pc = "sleep" => pc' = "check_rpc" /\ idx' = 0
      ]_vars

\* The last record has just recovered in its liveness call and its peers call
\* comes next.
C15_Witness ==
    /\ pc = "check_peers" /\ idx = NumClients - 1
    /\ LinesAbout(log, "is now online", idx) # {}
    /\ clients[idx].is_online

\* C16: while a record stays offline, time_offline is not written: a step
\* that finds record i offline and leaves it offline keeps its timestamp, so
\* the timestamp is still the one of the online-to-offline transition when
\* the recovery line is computed from it.
C16_StampKeptWhileOffline ==
    [][\A i \in Clients :
          (~clients[i].is_online /\ ~clients'[i].is_online) =>
              clients'[i].time_offline = clients[i].time_offline
      ]_vars

\* Record i went offline at time 0; at time MaxTime its liveness call has
\* just failed again, without an error line, and the timestamp is still 0.
C16_Witness ==
    \E i \in Clients :
        /\ now = MaxTime
        /\ ~clients[i].is_online
        /\ clients[i].time_offline = Some(0)
        /\ LinesAbout(log, "Checking client", i) # {}
        /\ ErrorLines(log, i) = {}
        /\ pc \in {"check_rpc", "lag_pass"}

\* The three groups of the third pass, from the records.
OfflineGroup == {i \in Clients : ~clients[i].is_online}
Peer0Group == {i \in Clients : clients[i].is_online /\ clients[i].peers = 0}
Peer1Group == {i \in Clients : clients[i].is_online /\ clients[i].peers = 1}

\* The summary lines of a log with message msg.
SummaryLines(lg, msg) == {k \in DOMAIN lg : lg[k].msg = msg}

\* The log has no line for an empty group, and for a non-empty one exactly
\* one line, with its size and its indices in increasing order.
GroupReported(lg, msg, group) ==
    IF group = {}
    THEN SummaryLines(lg, msg) = {}
    ELSE \E k \in DOMAIN lg :
            /\ SummaryLines(lg, msg) = {k}
            /\ lg[k].level = "info"
            /\ lg[k].args[1] = Cardinality(group)
            /\ LET list == lg[k].args[2]
               IN  /\ Len(list) = Cardinality(group)
                   /\ {list[n] : n \in DOMAIN list} = group
                   /\ \A a, b \in DOMAIN list : a < b => list[a] < list[b]

\* C17: after the third pass the log holds one summary line for each
\* non-empty group and nothing else; the offline line lists exactly the
\* offline records, the 0-peer line exactly the online records with 0 peers,
\* the 1-peer line exactly the online records with 1 peer, each in increasing
\* index order with its count, and no index is listed in two lines.
C17_GroupsPartition ==
    pc = "sleep" =>
        /\ GroupReported(log, "clients that are offline", OfflineGroup)
        /\ GroupReported(log, "clients with 0 peers", Peer0Group)
        /\ GroupReported(log, "clients with 1 peer", Peer1Group)
        /\ Len(log) = Cardinality({g \in {OfflineGroup, Peer0Group, Peer1Group} :
                                      g # {}})
        /\ \A j, k \in DOMAIN log :
              j # k => \A a \in DOMAIN log[j].args[2] :
                           \A b \in DOMAIN log[k].args[2] :
                               log[j].args[2][a] # log[k].args[2][b]

\* The third pass has just reported an offline record next to an online
\* record with 0 peers.
C17_Witness ==
    /\ pc = "sleep"
    /\ OfflineGroup # {}
    /\ Peer0Group # {}
    /\ Len(log) = 2

\* C18: in every reachable state an offline record has block_number 0 and
\* peers 0.
C18_OfflineRecordZeroed ==
    \A i \in Clients :
        ~clients[i].is_online =>
            /\ clients[i].block_number = U64Zero
            /\ clients[i].peers = 0

\* Record i has just gone offline after some record had stored a block
\* number, and no record holds a block number any more.
C18_Witness ==
    \E i \in Clients :
        /\ ~clients[i].is_online
        /\ ErrorLines(log, i) # {}
        /\ highest_block_number # U64Zero
        /\ \A j \in Clients : clients[j].block_number = U64Zero

\* C19: the second pass never overflows: when it starts, block_number + 30
\* fits in 64 bits for every online record, and the pass never ends in an
\* overflow panic.
C19_LagTestNoOverflow ==
    /\ pc # "panic_overflow"
    /\ pc = "lag_pass" =>
          \A i \in Clients :
              clients[i].is_online =>
                  ~U64Add(clients[i].block_number, U64Of(MAX_BLOCK_DIFF)).overflow

\* C20: in the second and third passes highest_block_number is at least the
\* block_number of every online record, and every lag warning the second
\* pass has logged prints a gap greater than 30.
C20_GapAboveThreshold ==
    /\ pc \in {"lag_pass", "group_pass"} =>
          \A i \in Clients :
              clients[i].is_online =>
                  ~U64Less(highest_block_number, clients[i].block_number)
    /\ pc = "group_pass" =>
          \A k \in DOMAIN log :
              log[k].msg = "is lagging" =>
                  U64Less(U64Of(MAX_BLOCK_DIFF), log[k].args[1])

====
